---- MODULE Spec2Model ----
(***************************************************************************)
(* A model of the `logs` service: the webhook ingest handler and the       *)
(* render handler of the server (the PostgreSQL server of logs/server.go   *)
(* and its SQLite predecessor), and the one-shot SQLite -> PostgreSQL      *)
(* migration utility.                                                      *)
(*                                                                         *)
(* Instants are integers: ticks since 2021-01-01T00:00:00Z, TicksPerSecond *)
(* ticks to the second.  A time.Time rendered as text (RFC 3339, the day   *)
(* and time-of-day formats) is a record of its civil fields.               *)
(***************************************************************************)
EXTENDS Integers, Sequences, FiniteSets, TLC

(***************************************************************************)
(* Bounds of the model.                                                    *)
(***************************************************************************)
NumReqs        == 2   \* webhook deliveries that can be in flight at once
MaxDeliveries  == 2   \* webhook deliveries the server receives in all
MaxTicks       == 3   \* advances of the wall clock
MaxSrc         == 3   \* rows of the migration's source store
TicksPerSecond == 2   \* resolution of the clock

(***************************************************************************)
(* Calendar arithmetic (proleptic Gregorian, as package time computes it). *)
(***************************************************************************)
SecondsPerDay == 24 * 3600
TicksPerDay   == SecondsPerDay * TicksPerSecond

DaysFromCivil(y, m, d) ==
    LET yy  == IF m <= 2 THEN y - 1 ELSE y
        era == yy \div 400
        yoe == yy - era * 400
        mp  == (m + 9) % 12
        doy == (153 * mp + 2) \div 5 + d - 1
        doe == yoe * 365 + yoe \div 4 - yoe \div 100 + doy
    IN  era * 146097 + doe - 719468

CivilFromDays(z0) ==
    LET z   == z0 + 719468
        era == z \div 146097
        doe == z - era * 146097
        yoe == (doe - doe \div 1460 + doe \div 36524 - doe \div 146096) \div 365
        doy == doe - (365 * yoe + yoe \div 4 - yoe \div 100)
        mp  == (5 * doy + 2) \div 153
        d   == doy - (153 * mp + 2) \div 5 + 1
        m   == IF mp < 10 THEN mp + 3 ELSE mp - 9
        y   == yoe + era * 400 + (IF m <= 2 THEN 1 ELSE 0)
    IN  [year |-> y, month |-> m, day |-> d]

\* Day number (days since 1970-01-01) of the model's epoch, 2021-01-01.
EpochDay == DaysFromCivil(2021, 1, 1)

\* 0 = Sunday; 1970-01-01 was a Thursday.
Weekday(days) == (days + 4) % 7

FirstSundayOnOrAfter(days) == days + ((7 - Weekday(days)) % 7)

\* Seconds since the model's epoch of a civil time read at UTC offset off.
CivilToSeconds(c, off) ==
    (DaysFromCivil(c.year, c.month, c.day) - EpochDay) * SecondsPerDay
        + c.hour * 3600 + c.minute * 60 + c.second - off

\* Civil fields of the instant secs (whole seconds) read at UTC offset off.
SecondsToCivil(secs, off) ==
    LET loc  == secs + off
        days == loc \div SecondsPerDay
        sod  == loc % SecondsPerDay
        ymd  == CivilFromDays(EpochDay + days)
    IN  [year |-> ymd.year, month |-> ymd.month, day |-> ymd.day,
         hour |-> sod \div 3600, minute |-> (sod % 3600) \div 60,
         second |-> sod % 60, offset |-> off]

(***************************************************************************)
(* time.LoadLocation: the zones of the two servers, and UTC.  Both North   *)
(* American zones follow the rule in force since 2007: daylight time from  *)
(* 02:00 standard time on the second Sunday of March to 02:00 daylight     *)
(* time on the first Sunday of November.                                   *)
(***************************************************************************)
StdOffset(zone) ==
    CASE zone = "America/Toronto"   -> -5 * 3600
      [] zone = "America/Vancouver" -> -8 * 3600
      [] OTHER                      -> 0

HasDST(zone) == zone \in {"America/Toronto", "America/Vancouver"}

UTCOffset(zone, secs) ==
    LET y      == CivilFromDays(EpochDay + secs \div SecondsPerDay).year
        std    == StdOffset(zone)
        dstDay == FirstSundayOnOrAfter(DaysFromCivil(y, 3, 1)) + 7
        stdDay == FirstSundayOnOrAfter(DaysFromCivil(y, 11, 1))
        start  == (dstDay - EpochDay) * SecondsPerDay + 2 * 3600 - std
        end    == (stdDay - EpochDay) * SecondsPerDay + 2 * 3600 - (std + 3600)
    IN  IF HasDST(zone) /\ start <= secs /\ secs < end THEN std + 3600 ELSE std

\* t.In(loc): the civil reading of instant t (ticks) in the zone.
In(t, zone) ==
    LET secs == t \div TicksPerSecond
    IN  SecondsToCivil(secs, UTCOffset(zone, secs))

\* t.Day(), t.Format("2006-01-02"), t.Format("15:04") of a civil reading.
Day(c) == c.day

FormatDay(c) == <<c.year, c.month, c.day>>

FormatTime(c) == <<c.hour, c.minute>>

\* t.Format(time.RFC3339): whole seconds and the offset of t's own zone.
FormatRFC3339(t, zone) == In(t, zone)

\* time.Parse(time.RFC3339, s): the instant the text denotes.
ParseRFC3339(s) == CivilToSeconds(s, s.offset) * TicksPerSecond

\* A datetime that drops the zone offset of the text.
datetime_NoOffset(s) == CivilToSeconds(s, 0)

\* SQLite's datetime(ts): the text normalised to UTC, to the second.
datetime(s) == CivilToSeconds(s, s.offset)

(***************************************************************************)
(* Configuration (read once from the environment) and request inputs.      *)
(***************************************************************************)
telegramSecret   == "s3cret"
telegramUsername == "alice"

\* r.URL.Query()["key"]: the values of the key parameter, none when absent.
KeyParams == {<<>>, <<telegramSecret>>, <<"S3CRET">>}

Texts == {"a", "b"}

\* A request body: text that is not JSON ("syntax"), JSON of another shape
\* ("mistyped": message is not an object), or an object whose message.from
\* is absent (<<>>) or carries a username.
Body(kind, from, text) == [kind |-> kind, from |-> from, text |-> text]

NoBody == Body("none", <<>>, "")

Bodies ==
    {Body("syntax", <<>>, ""), Body("mistyped", <<>>, "")}
        \cup {Body("object", f, "a") : f \in {<<>>, <<"Alice">>}}
        \cup {Body("object", <<telegramUsername>>, t) : t \in Texts}

\* The deliveries considered: every body with the configured key; without
\* it, a body that is not JSON and a body the allow-listed sender sent.
Deliveries ==
    ({<<telegramSecret>>} \X Bodies)
        \cup ((KeyParams \ {<<telegramSecret>>})
                \X {Body("syntax", <<>>, ""),
                    Body("object", <<telegramUsername>>, "a")})

\* Response statuses; a handler that returns without writing answers 200.
StatusOK                  == 200
StatusBadRequest          == 400
StatusUnauthorized        == 401
StatusInternalServerError == 500

Reqs == 1..NumReqs

\* The zero value of the log struct.
NoLog == [ts |-> 0, content |-> ""]

IdleReq ==
    [pc |-> "idle", whkeys |-> <<>>, body |-> NoBody, arrival |-> 0,
     l |-> NoLog]

\* No delivery answered yet.
NoResponse == [whkeys |-> <<>>, body |-> NoBody, conn |-> "none", status |-> 0]

\* Outcomes of one statement sent to the database.
ExecOutcomes == {"ok", "fail"}

VARIABLES
    variant,     \* which server is deployed: "postgres" or "sqlite"
    localZone,   \* time.Local of the machine the server runs on
    srvUp,       \* the server is listening
    pg,          \* the PostgreSQL database: the logs table and its SERIAL
    sqlite,      \* the SQLite database: the logs table
    now,         \* the wall clock
    ticks,       \* advances of the clock so far
    deliveries,  \* webhook deliveries received so far
    reqs,        \* the webhook handlers in progress
    last,        \* the delivery this process answered last, and the response
    page,        \* the page rendered last, while the store is as it was
    mig          \* the migration utility's process

vars == <<variant, localZone, srvUp, pg, sqlite, now, ticks, deliveries,
          reqs, last, page, mig>>

(***************************************************************************)
(* The log store.                                                          *)
(***************************************************************************)
NoTable == [exists |-> FALSE, rows |-> <<>>, nextId |-> 1]

\* A schema step that recreates the table.
doPostgresMigrations_Recreate(db) ==
    [exists |-> TRUE, rows |-> <<>>, nextId |-> 1]

\* CREATE TABLE IF NOT EXISTS logs (id SERIAL PRIMARY KEY, timestamp
\* TIMESTAMPTZ, content TEXT)
doPostgresMigrations(db) ==
    IF db.exists THEN db ELSE [exists |-> TRUE, rows |-> <<>>, nextId |-> 1]

\* CREATE TABLE IF NOT EXISTS logs (ts DATETIME NOT NULL, content TEXT NOT
\* NULL)
migrate(db) ==
    IF db.exists THEN db ELSE [exists |-> TRUE, rows |-> <<>>, nextId |-> 1]

\* INSERT INTO logs (timestamp, content) VALUES ($1, $2)
insertLog(db, l, outcome) ==
    IF outcome = "ok"
    THEN [db |-> [db EXCEPT !.rows = Append(@, [id |-> db.nextId,
                                                ts |-> l.ts,
                                                content |-> l.content]),
                            !.nextId = @ + 1],
          err |-> FALSE]
    ELSE [db |-> db, err |-> TRUE]

\* INSERT INTO logs (ts, content) VALUES (?, ?) with ts.Format(time.RFC3339)
sqliteInsertLog(db, ts, content, zone, outcome) ==
    IF outcome = "ok"
    THEN [db |-> [db EXCEPT !.rows = Append(@, [ts |-> FormatRFC3339(ts, zone),
                                                content |-> content])],
          err |-> FALSE]
    ELSE [db |-> db, err |-> TRUE]

Perms(n) == {p \in [1..n -> 1..n] : \A i, j \in 1..n : i # j => p[i] # p[j]}

Permuted(ls, p) == [i \in 1..Len(ls) |-> ls[p[i]]]

IsDescending(ls) == \A i \in 1..(Len(ls) - 1) : ls[i].ts >= ls[i + 1].ts

IsAscending(ls) == \A i \in 1..(Len(ls) - 1) : ls[i].ts <= ls[i + 1].ts

\* A fetch that orders oldest first.
fetchLogs_Asc(db) ==
    LET ls == [i \in 1..Len(db.rows) |->
                 [ts |-> db.rows[i].ts, content |-> db.rows[i].content]]
    IN  {o \in {Permuted(ls, p) : p \in Perms(Len(ls))} : IsAscending(o)}

\* SELECT timestamp, content FROM logs ORDER BY timestamp desc: every row,
\* most recent first; SQL leaves the order of rows of equal timestamp open,
\* so the result is one of the orders below.
fetchLogs(db) ==
    LET ls == [i \in 1..Len(db.rows) |->
                 [ts |-> db.rows[i].ts, content |-> db.rows[i].content]]
    IN  {o \in {Permuted(ls, p) : p \in Perms(Len(ls))} : IsDescending(o)}

\* SELECT ts, content FROM logs ORDER BY datetime(ts) DESC, each ts read
\* back with time.Parse(time.RFC3339, ...).  The order is that of
\* datetime(ts); rows of equal datetime come in any order.
sqliteFetchDesc(db) ==
    LET ks == [i \in 1..Len(db.rows) |->
                 [ts |-> datetime(db.rows[i].ts), row |-> i]]
        os == {o \in {Permuted(ks, p) : p \in Perms(Len(ks))} : IsDescending(o)}
    IN  {[i \in 1..Len(o) |->
            [ts |-> ParseRFC3339(db.rows[o[i].row].ts),
             content |-> db.rows[o[i].row].content]] : o \in os}

(***************************************************************************)
(* The webhook ingest handler.                                             *)
(***************************************************************************)
\* A key check that lets a request without key parameter through.
keyOk_AbsentPasses(whkeys) == Len(whkeys) = 0 \/ whkeys[1] = telegramSecret

\* whkeys, ok := r.URL.Query()["key"]; ok && len(whkeys) > 0 &&
\* whkeys[0] == telegramSecret
keyOk(whkeys) == Len(whkeys) > 0 /\ whkeys[1] = telegramSecret

\* A decoder that leaves the zero value, without error, for JSON of another
\* shape.
Decode_Lenient(body) ==
    IF body.kind \in {"object", "mistyped"}
    THEN [err |-> FALSE,
          wh  |-> [Message |->
                     [Text |-> body.text,
                      From |-> [Username |-> IF body.from = <<>> THEN ""
                                             ELSE body.from[1]]]]]
    ELSE [err |-> TRUE,
          wh  |-> [Message |-> [Text |-> "", From |-> [Username |-> ""]]]]

\* json.NewDecoder(r.Body).Decode(&wh): an error for text that is not JSON
\* or not of the webhook's shape; absent fields keep their zero value.
Decode(body) ==
    IF body.kind = "object"
    THEN [err |-> FALSE,
          wh  |-> [Message |->
                     [Text |-> body.text,
                      From |-> [Username |-> IF body.from = <<>> THEN ""
                                             ELSE body.from[1]]]]]
    ELSE [err |-> TRUE,
          wh  |-> [Message |-> [Text |-> "", From |-> [Username |-> ""]]]]

\* A sender check that ignores case (strings.EqualFold).
senderAllowed_Fold(wh) ==
    \/ wh.Message.From.Username = telegramUsername
    \/ {wh.Message.From.Username, telegramUsername} = {"Alice", "alice"}

\* wh.Message.From.Username == telegramUsername
senderAllowed(wh) == wh.Message.From.Username = telegramUsername

\* A log built from the wrong field of the message.
newLog_Username(t, wh) == [ts |-> t, content |-> wh.Message.From.Username]

\* log{ts: time.Now(), content: wh.Message.Text}
newLog(t, wh) == [ts |-> t, content |-> wh.Message.Text]

\* dbpool.Get(r.Context()) of the SQLite server: a connection, or nil once
\* the request's context is done.  The PostgreSQL server holds a *sql.DB.
ConnOutcomes == IF variant = "sqlite" THEN {"conn", "nil"} ELSE {"conn"}

Response(k, b, c, st) == [whkeys |-> k, body |-> b, conn |-> c, status |-> st]

\* A webhook delivery reaches the server and its handler starts (in the
\* first free slot: handlers have no identity of their own).
Arrive(r) ==
    /\ srvUp
    /\ reqs[r].pc = "idle"
    /\ \A q \in Reqs : q < r => reqs[q].pc # "idle"
    /\ deliveries < MaxDeliveries
    /\ deliveries' = deliveries + 1
    /\ reqs' = [reqs EXCEPT ![r].pc = "arrived", ![r].arrival = now]
    /\ UNCHANGED <<variant, localZone, srvUp, pg, sqlite, now, ticks, last,
                   page, mig>>

\* telegramHandler up to the reading of the clock, on a delivery with key
\* parameter k and body b: the connection (SQLite server), the key, the
\* body, the sender.
Handle(r) ==
    /\ srvUp
    /\ reqs[r].pc = "arrived"
    /\ \E kb \in Deliveries, c \in ConnOutcomes :
         LET k == kb[1]
             b == kb[2]
             d == Decode(b)
             st == IF c = "nil" THEN StatusOK
                   ELSE IF ~keyOk(k) THEN StatusUnauthorized
                   ELSE IF d.err THEN StatusBadRequest
                   ELSE IF ~senderAllowed(d.wh) THEN StatusOK
                   ELSE 0
         IN  IF st # 0
             THEN /\ reqs' = [reqs EXCEPT ![r] = IdleReq]
                  /\ last' = Response(k, b, c, st)
             ELSE /\ reqs' = [reqs EXCEPT ![r].pc = "insert",
                                          ![r].whkeys = k, ![r].body = b,
                                          ![r].arrival = 0,
                                          ![r].l = newLog(now, d.wh)]
                  /\ UNCHANGED last
    /\ UNCHANGED <<variant, localZone, srvUp, pg, sqlite, now, ticks,
                   deliveries, page, mig>>

NoPage ==
    [status |-> 0, logs |-> <<>>, lines |-> <<>>, count |-> -1,
     complete |-> FALSE]

\* telegramHandler from insertLog on: the INSERT and the response.
Insert(r) ==
    /\ srvUp
    /\ reqs[r].pc = "insert"
    /\ \E o \in ExecOutcomes :
         LET l   == reqs[r].l
             res == IF variant = "postgres"
                    THEN insertLog(pg, l, o)
                    ELSE sqliteInsertLog(sqlite, l.ts, l.content, localZone, o)
         IN  /\ IF variant = "postgres"
                THEN pg' = res.db /\ UNCHANGED sqlite
                ELSE sqlite' = res.db /\ UNCHANGED pg
             /\ last' = Response(reqs[r].whkeys, reqs[r].body, "conn",
                                 IF res.err THEN StatusInternalServerError
                                 ELSE StatusOK)
             /\ page' = IF res.err THEN page ELSE NoPage
    /\ reqs' = [reqs EXCEPT ![r] = IdleReq]
    /\ UNCHANGED <<variant, localZone, srvUp, now, ticks, deliveries, mig>>

(***************************************************************************)
(* The render handler.                                                     *)
(***************************************************************************)
timezone        == "America/Toronto"
currentTimezone == "America/Vancouver"

\* The display zone of the deployed server.
tz == IF variant = "postgres" THEN timezone ELSE currentTimezone

\* The loop over the fetched logs, from the i-th on: a day line when the
\* entry's day differs from prevday, then the entry's line.
RECURSIVE renderLoop(_, _, _, _)
renderLoop(logs, i, prevday, zone) ==
    IF i > Len(logs) THEN <<>>
    ELSE LET ts  == In(logs[i].ts, zone)
             day == Day(ts)
             sep == IF day # prevday
                    THEN << [kind |-> "day", text |-> FormatDay(ts),
                             content |-> ""] >>
                    ELSE <<>>
         IN  sep \o << [kind |-> "li", text |-> FormatTime(ts),
                        content |-> logs[i].content] >>
                 \o renderLoop(logs, i + 1, day, zone)

\* The page written for the logs: the list, and the footer's count when the
\* handler reached it.
Page(status, logs, zone, complete) ==
    [status |-> status, logs |-> logs, lines |-> renderLoop(logs, 1, 0, zone),
     count |-> IF complete THEN Len(logs) ELSE -1, complete |-> complete]

\* getHandler of the PostgreSQL server: fetchLogs, then the page; a failed
\* fetch answers 500 before anything is written.
getHandler(db, zone) ==
    {Page(StatusInternalServerError, <<>>, zone, FALSE)}
        \cup {Page(StatusOK, logs, zone, TRUE) : logs \in fetchLogs(db)}

\* getHandler of the SQLite server: nothing without a connection; rows are
\* written as they are stepped through, so a failing Step leaves the page
\* cut short after the n rows already written (the status line has gone
\* out by then).
sqliteGetHandler(db, zone) ==
    {Page(StatusOK, SubSeq(logs, 1, n), zone, FALSE) :
        logs \in sqliteFetchDesc(db), n \in 0..Len(db.rows)}
        \cup {Page(StatusOK, logs, zone, TRUE) : logs \in sqliteFetchDesc(db)}

Render ==
    /\ srvUp
    /\ \E p \in (IF variant = "postgres" THEN getHandler(pg, tz)
                 ELSE sqliteGetHandler(sqlite, tz)) :
         page' = p
    /\ UNCHANGED <<variant, localZone, srvUp, pg, sqlite, now, ticks,
                   deliveries, reqs, last, mig>>

(***************************************************************************)
(* The server process and the clock.                                       *)
(***************************************************************************)
\* run: the database is opened, the schema ensured, the routes served.
StartServer ==
    /\ ~srvUp
    /\ srvUp' = TRUE
    /\ IF variant = "postgres"
       THEN pg' = doPostgresMigrations(pg) /\ UNCHANGED sqlite
       ELSE sqlite' = migrate(sqlite) /\ UNCHANGED pg
    /\ UNCHANGED <<variant, localZone, now, ticks, deliveries, reqs, last,
                   page, mig>>

\* The process ends; requests in flight are lost with it.
StopServer ==
    /\ srvUp
    /\ srvUp' = FALSE
    /\ reqs' = [r \in Reqs |-> IdleReq]
    /\ last' = NoResponse
    /\ UNCHANGED <<variant, localZone, pg, sqlite, now, ticks, deliveries,
                   page, mig>>

\* The k-th advance of the clock: by one tick, every third time by 31
\* days.
ClockStep(k) == IF k % 3 = 0 THEN 31 * TicksPerDay ELSE 1

Tick ==
    /\ ticks < MaxTicks
    /\ now' = now + ClockStep(ticks + 1)
    /\ ticks' = ticks + 1
    /\ UNCHANGED <<variant, localZone, srvUp, pg, sqlite, deliveries, reqs,
                   last, page, mig>>

\* The last tick of 2021-01-14 in the zone.
StartInstant(zone) ==
    CivilToSeconds([year |-> 2021, month |-> 1, day |-> 15, hour |-> 0,
                    minute |-> 0, second |-> 0], StdOffset(zone))
        * TicksPerSecond - 1

MigOff == [pc |-> "off", logs |-> <<>>, reported |-> -1, failedAt |-> 0]

Init ==
    /\ \/ variant = "postgres" /\ localZone = "UTC"
       \/ variant = "sqlite" /\ localZone = currentTimezone
    /\ srvUp = FALSE
    /\ pg = NoTable
    /\ sqlite = NoTable
    /\ now = StartInstant(tz)
    /\ ticks = 0
    /\ deliveries = 0
    /\ reqs = [r \in Reqs |-> IdleReq]
    /\ last = NoResponse
    /\ page = NoPage
    /\ mig = MigOff

Next ==
    \/ StartServer
    \/ StopServer
    \/ Tick
    \/ Render
    \/ \E r \in Reqs : Arrive(r)
    \/ \E r \in Reqs : Handle(r)
    \/ \E r \in Reqs : Insert(r)

Spec == Init /\ [][Next]_vars

(***************************************************************************)
(* The migration utility: SQLite -> PostgreSQL.                            *)
(***************************************************************************)
\* existingLogs: SELECT ts, content FROM logs ORDER BY datetime(ts) ASC,
\* each ts read back with time.Parse(time.RFC3339, ...); rows of equal
\* datetime come in any order.
existingLogs(db) ==
    LET ks == [i \in 1..Len(db.rows) |->
                 [ts |-> datetime(db.rows[i].ts), row |-> i]]
        os == {o \in {Permuted(ks, p) : p \in Perms(Len(ks))} : IsAscending(o)}
    IN  {[i \in 1..Len(o) |->
            [ts |-> ParseRFC3339(db.rows[o[i].row].ts),
             content |-> db.rows[o[i].row].content]] : o \in os}

\* CREATE TABLE IF NOT EXISTS logs (id SERIAL PRIMARY KEY, timestamp
\* TIMESTAMPTZ, content TEXT)
migratePostgres(db) ==
    IF db.exists THEN db ELSE [exists |-> TRUE, rows |-> <<>>, nextId |-> 1]

\* A loop that skips the entry whose INSERT fails and goes on.
RECURSIVE insertLoop_Continue(_, _, _, _)
insertLoop_Continue(db, logs, i, failAt) ==
    IF i > Len(logs) THEN [db |-> db, err |-> failAt # 0]
    ELSE insertLoop_Continue(
             insertLog(db, logs[i], IF i = failAt THEN "fail" ELSE "ok").db,
             logs, i + 1, failAt)

\* The loop of insertLogs from the i-th log on: one INSERT per log, in
\* order; the failAt-th INSERT fails (none when failAt = 0), and the first
\* failure ends the loop.
RECURSIVE insertLoop(_, _, _, _)
insertLoop(db, logs, i, failAt) ==
    IF i > Len(logs) THEN [db |-> db, err |-> FALSE]
    ELSE IF i = failAt
         THEN [db |-> insertLog(db, logs[i], "fail").db, err |-> TRUE]
         ELSE insertLoop(insertLog(db, logs[i], "ok").db, logs, i + 1, failAt)

\* insertLogs: the database is opened and pinged and the schema ensured
\* (open = "fail": one of these fails), then the loop; the count is logged
\* only when every INSERT succeeded.
insertLogs(db, logs, open, failAt) ==
    IF open = "fail" THEN [db |-> db, err |-> TRUE, reported |-> -1]
    ELSE LET res == insertLoop(migratePostgres(db), logs, 1, failAt)
         IN  [db |-> res.db, err |-> res.err,
              reported |-> IF res.err THEN -1 ELSE Len(logs)]

\* run, first half: the utility starts and reads the source; a failure to
\* open or step through the source ends the run.
MigExistingLogs ==
    /\ mig.pc = "off"
    /\ \/ \E logs \in existingLogs(sqlite) :
            mig' = [mig EXCEPT !.pc = "fetched", !.logs = logs]
       \/ mig' = [mig EXCEPT !.pc = "failed"]
    /\ UNCHANGED <<variant, localZone, srvUp, pg, sqlite, now, ticks,
                   deliveries, reqs, last, page>>

\* run, second half: insertLogs(logs).
MigInsertLogs ==
    /\ mig.pc = "fetched"
    /\ \E open \in {"ok", "fail"}, failAt \in 0..Len(mig.logs) :
         LET res == insertLogs(pg, mig.logs, open, failAt)
         IN  /\ open = "fail" => failAt = 0
             /\ pg' = res.db
             /\ mig' = [mig EXCEPT !.pc = IF res.err THEN "failed" ELSE "done",
                                   !.reported = res.reported,
                                   !.failedAt = IF open = "ok" THEN failAt
                                                ELSE 0]
    /\ UNCHANGED <<variant, localZone, srvUp, sqlite, now, ticks, deliveries,
                   reqs, last, page>>

\* Instants and zones of the rows a SQLite server has written.
SrcInstants == {StartInstant(currentTimezone) + d : d \in {0, 1}}

SrcZones == {"UTC", currentTimezone}

SrcRows ==
    {[ts |-> FormatRFC3339(t, z), content |-> c] :
        t \in SrcInstants, z \in SrcZones, c \in Texts}

SeqsUpTo(S, n) == UNION {[1..k -> S] : k \in 0..n}

\* The utility is about to run: a source written by the SQLite server, a
\* destination database without the table or with the table still empty.
MigInit ==
    /\ variant = "sqlite"
    /\ localZone = "UTC"
    /\ srvUp = FALSE
    /\ pg \in {NoTable, doPostgresMigrations(NoTable)}
    /\ sqlite \in {[exists |-> TRUE, rows |-> rs, nextId |-> 1] :
                     rs \in SeqsUpTo(SrcRows, MaxSrc)}
    /\ now = StartInstant(tz)
    /\ ticks = 0
    /\ deliveries = 0
    /\ reqs = [r \in Reqs |-> IdleReq]
    /\ last = NoResponse
    /\ page = NoPage
    /\ mig = MigOff

MigNext == MigExistingLogs \/ MigInsertLogs

SpecMigrate == MigInit /\ [][MigNext]_vars

(***************************************************************************)
(* Vocabulary of the properties.                                           *)
(***************************************************************************)
\* The entries of the deployed server's store, as (instant, content) logs
\* in insertion order.
StoreLogs ==
    IF variant = "postgres"
    THEN [i \in 1..Len(pg.rows) |->
            [ts |-> pg.rows[i].ts, content |-> pg.rows[i].content]]
    ELSE [i \in 1..Len(sqlite.rows) |->
            [ts |-> ParseRFC3339(sqlite.rows[i].ts),
             content |-> sqlite.rows[i].content]]

\* The step answers the delivery handled in slot r; last' is the delivery
\* and its response.
Answered(r) ==
    reqs[r].pc # "idle" /\ reqs'[r].pc = "idle" /\ last' # NoResponse

StoreUnchanged == pg.rows' = pg.rows /\ sqlite.rows' = sqlite.rows

\* The step adds exactly one entry: the text of the delivery answered,
\* with the timestamp the handler in slot r took, which is not later than
\* the response (now).
AddsOne(r) ==
    /\ Len(StoreLogs') = Len(StoreLogs) + 1
    /\ SubSeq(StoreLogs', 1, Len(StoreLogs)) = StoreLogs
    /\ StoreLogs'[Len(StoreLogs')].content = last'.body.text
    /\ StoreLogs'[Len(StoreLogs')].ts = reqs[r].l.ts
    /\ reqs[r].l.ts <= now

\* The handler in slot r takes its timestamp in this step, not earlier than
\* the request arrived.
StampedAfterArrival(r) ==
    (reqs[r].pc = "arrived" /\ reqs'[r].pc = "insert") =>
        reqs[r].arrival <= reqs'[r].l.ts

KeyMatches(resp)  == resp.whkeys = <<telegramSecret>>
WellFormed(resp)  == resp.body.kind = "object"
FromAllowed(resp) == resp.body.from = <<telegramUsername>>
ValidDelivery(resp) == KeyMatches(resp) /\ WellFormed(resp) /\ FromAllowed(resp)

(***************************************************************************)
(* C1.  As stated: every delivery to the ingest handler of the PostgreSQL  *)
(* server with the configured key, a well-formed body and the configured   *)
(* sender adds exactly one entry, whose content is message.text and whose  *)
(* timestamp lies between the request's arrival and its response.          *)
(***************************************************************************)
C1_AsStated ==
    [][variant = "postgres" =>
         \A r \in Reqs :
            /\ StampedAfterArrival(r)
            /\ (Answered(r) /\ ValidDelivery(last')) => AddsOne(r)]_vars

(***************************************************************************)
(* C1, amended.  Such a delivery adds exactly one entry (content           *)
(* message.text, timestamp between arrival and response) when its          *)
(* insertion succeeds, and is answered 500 with no entry added when the    *)
(* insertion fails; whatever runs concurrently, the store gains an entry   *)
(* only in the step that answers such a delivery with success.             *)
(***************************************************************************)
C1_Amended ==
    [][variant = "postgres" =>
         /\ \A r \in Reqs :
              /\ StampedAfterArrival(r)
              /\ (Answered(r) /\ ValidDelivery(last')) =>
                   IF last'.status = StatusOK THEN AddsOne(r)
                   ELSE /\ last'.status = StatusInternalServerError
                        /\ StoreUnchanged
         /\ ~StoreUnchanged =>
              \E r \in Reqs : /\ Answered(r) /\ ValidDelivery(last')
                              /\ last'.status = StatusOK /\ AddsOne(r)]_vars

\* A valid delivery has been answered with success and its entry is the
\* latest of the store, while another delivery is being handled.
C1_Witness ==
    /\ variant = "postgres"
    /\ ValidDelivery(last) /\ last.status = StatusOK
    /\ Len(pg.rows) > 0
    /\ pg.rows[Len(pg.rows)].content = last.body.text
    /\ pg.rows[Len(pg.rows)].ts < now
    /\ \E r \in Reqs : reqs[r].pc = "insert"

C3_SenderIgnored ==
    [][\A r \in Reqs :
         (Answered(r) /\ KeyMatches(last') /\ WellFormed(last')
            /\ ~FromAllowed(last')) =>
         StoreUnchanged /\ last'.status = StatusOK]_vars

\* A delivery from "Alice" (the configured sender is "alice") was answered
\* 200 by a server whose store holds entries.
C3_Witness ==
    /\ KeyMatches(last) /\ WellFormed(last) /\ last.body.from = <<"Alice">>
    /\ last.status = StatusOK
    /\ Len(StoreLogs) > 0

(***************************************************************************)
(* C9.  In the PostgreSQL server, every delivery with the configured key   *)
(* whose body does not parse as the webhook's JSON shape is answered 400   *)
(* and leaves the store unchanged; a delivery that passes all checks and   *)
(* whose insertion fails is answered 500, adds no entry, and the server    *)
(* goes on serving.                                                        *)
(***************************************************************************)
C9_ErrorStatuses ==
    [][variant = "postgres" =>
         \A r \in Reqs :
            /\ (Answered(r) /\ KeyMatches(last') /\ ~WellFormed(last')) =>
                 last'.status = StatusBadRequest /\ StoreUnchanged
            /\ (Answered(r) /\ reqs[r].pc = "insert" /\ StoreUnchanged) =>
                 last'.status = StatusInternalServerError
            /\ (Answered(r) /\ last'.status = StatusInternalServerError) =>
                 StoreUnchanged /\ srvUp' /\ reqs'[r] = IdleReq]_vars

\* A failed insertion was answered 500 and a later delivery is in progress.
C9_Witness ==
    /\ variant = "postgres"
    /\ ValidDelivery(last) /\ last.status = StatusInternalServerError
    /\ \E r \in Reqs : reqs[r].pc = "arrived"

(***************************************************************************)
(* Vocabulary of the render properties.                                    *)
(***************************************************************************)
\* The calendar date (year, month, day) of a log in the display zone.
DateOf(l, zone) == FormatDay(In(l.ts, zone))

\* The list as the claim describes it: a day line before the first entry
\* and before every entry whose calendar date differs from that of the
\* entry before it, and nowhere else.
RECURSIVE DayGrouped(_, _, _)
DayGrouped(logs, i, zone) ==
    IF i > Len(logs) THEN <<>>
    ELSE LET sep == IF i = 1 \/ DateOf(logs[i], zone) # DateOf(logs[i - 1], zone)
                    THEN << [kind |-> "day", text |-> DateOf(logs[i], zone),
                             content |-> ""] >>
                    ELSE <<>>
         IN  sep \o << [kind |-> "li",
                        text |-> FormatTime(In(logs[i].ts, zone)),
                        content |-> logs[i].content] >>
                 \o DayGrouped(logs, i + 1, zone)

IsPermutation(a, b) ==
    /\ Len(a) = Len(b)
    /\ \E p \in Perms(Len(a)) : \A i \in 1..Len(a) : a[i] = b[p[i]]

IsLi(line) == line.kind = "li"

IsPrefix(a, b) == Len(a) <= Len(b) /\ SubSeq(b, 1, Len(a)) = a

(***************************************************************************)
(* C4.  In every rendered page a day-separator line stands immediately     *)
(* before the first entry and before every entry whose calendar date       *)
(* (year-month-day in the display zone) differs from that of the entry     *)
(* rendered before it, and nowhere else.                                   *)
(***************************************************************************)
C4_DaySeparators == page.lines = DayGrouped(page.logs, 1, tz)

(***************************************************************************)
(* C6.  A successful render lists every stored entry exactly once, in      *)
(* non-increasing timestamp order, whatever the order of insertion, and    *)
(* its footer reports the number of stored entries.                        *)
(***************************************************************************)
C6_RenderAll ==
    page.complete =>
        /\ page.status = StatusOK
        /\ IsPermutation(page.logs, StoreLogs)
        /\ IsDescending(page.logs)
        /\ LET lis == SelectSeq(page.lines, IsLi)
           IN  /\ Len(lis) = Len(page.logs)
               /\ \A i \in 1..Len(lis) :
                    /\ lis[i].content = page.logs[i].content
                    /\ lis[i].text = FormatTime(In(page.logs[i].ts, tz))
        /\ page.count = Len(StoreLogs)

\* A complete page of a store whose second entry is older than its first
\* (the later insertion carries the earlier timestamp).
C6_Witness ==
    /\ variant = "postgres"
    /\ page.complete
    /\ Len(pg.rows) = 2
    /\ pg.rows[1].ts > pg.rows[2].ts
    /\ page.logs[1].ts > page.logs[2].ts

(***************************************************************************)
(* C7.  Two renders with no ingest between them yield the same entries in  *)
(* the same order, also when entries have equal timestamps, and a render   *)
(* leaves the store unchanged.  (page is cleared by every insertion, so a  *)
(* step from a complete page to a complete page is a render that follows   *)
(* a render with no ingest between.)                                       *)
(***************************************************************************)
C7_RenderIdempotent ==
    [][(page.complete /\ page'.complete) =>
         /\ page'.logs = page.logs
         /\ page'.lines = page.lines
         /\ StoreUnchanged]_vars

(***************************************************************************)
(* C8.  Whatever the interleaving of ingests, renders and restarts, no     *)
(* stored entry is modified or removed: every step keeps the entries it    *)
(* finds, in place, and the schema step of a restart leaves a store that   *)
(* holds entries as it is.                                                 *)
(***************************************************************************)
C8_AppendOnly ==
    [][/\ IsPrefix(pg.rows, pg.rows')
       /\ IsPrefix(sqlite.rows, sqlite.rows')
       /\ (~srvUp /\ srvUp') => StoreUnchanged]_vars

\* The server is up and has answered no delivery since it started, its
\* store holds entries (they were there when the schema was ensured), and a
\* page has been rendered from them.
C8_Witness ==
    /\ variant = "postgres"
    /\ srvUp /\ last = NoResponse
    /\ \A r \in Reqs : reqs[r].pc = "idle"
    /\ Len(pg.rows) > 0
    /\ page.complete

(***************************************************************************)
(* Vocabulary of the migration properties.                                 *)
(***************************************************************************)
\* The source's entries as (instant, content) logs, in insertion order.
SourceLogs ==
    [i \in 1..Len(sqlite.rows) |->
       [ts |-> ParseRFC3339(sqlite.rows[i].ts),
        content |-> sqlite.rows[i].content]]

AsLogs(rows) ==
    [i \in 1..Len(rows) |-> [ts |-> rows[i].ts, content |-> rows[i].content]]

\* Identifiers grow along the rows, and so do the timestamps.
ChronologicalIds(rows) ==
    \A i, j \in 1..Len(rows) :
        i < j => rows[i].id < rows[j].id /\ rows[i].ts <= rows[j].ts

(***************************************************************************)
(* C5.  After the utility has run to completion on a source of N entries   *)
(* (and a destination that held none), the destination contains exactly N  *)
(* entries, the same multiset of (timestamp, content) pairs as the source, *)
(* inserted in ascending timestamp order so that the identifiers the       *)
(* destination assigned follow the source's chronology.                    *)
(***************************************************************************)
C5_RoundTrip ==
    mig.pc = "done" =>
        /\ Len(pg.rows) = Len(sqlite.rows)
        /\ IsPermutation(AsLogs(pg.rows), SourceLogs)
        /\ ChronologicalIds(pg.rows)
        /\ mig.reported = Len(sqlite.rows)

\* A completed run on a source whose rows are not in chronological order
\* and whose texts, read without their zone offsets, would order them the
\* other way round.
C5_Witness ==
    /\ mig.pc = "done"
    /\ Len(sqlite.rows) >= 2
    /\ datetime(sqlite.rows[1].ts) > datetime(sqlite.rows[2].ts)
    /\ CivilToSeconds(sqlite.rows[1].ts, 0) < CivilToSeconds(sqlite.rows[2].ts, 0)
    /\ pg.rows[1].ts < pg.rows[2].ts

(***************************************************************************)
(* C10.  When the k-th insertion fails (k >= 1, entries taken in ascending *)
(* source order) the run stops and reports failure: the destination has    *)
(* gained exactly the first k-1 entries of that order, no later entry is   *)
(* inserted, and no migrated count is reported.                            *)
(***************************************************************************)
C10_StopsAtFirstFailure ==
    (mig.pc = "failed" /\ mig.failedAt >= 1) =>
        /\ IsAscending(mig.logs)
        /\ IsPermutation(mig.logs, SourceLogs)
        /\ AsLogs(pg.rows) = SubSeq(mig.logs, 1, mig.failedAt - 1)
        /\ mig.reported = -1

\* The second of at least three insertions failed: the first entry is in
\* the destination, the third is not.
C10_Witness ==
    /\ mig.pc = "failed"
    /\ mig.failedAt = 2
    /\ Len(mig.logs) >= 3
    /\ Len(pg.rows) = 1

====
